---------------------------- MODULE Spec2Model ----------------------------
(* A model of fsplit.py: a command-line tool that splits one file into     *)
(* num_chunks contiguous chunk files.                                       *)
(*                                                                          *)
(* File contents are modelled symbolically.  The byte at offset k of the   *)
(* source file is "byte k"; a run of bytes is an extent [off, len], and a  *)
(* chunk file's content is the sequence of extents written to it, with     *)
(* adjacent extents merged.  Two files hold the same bytes in the same     *)
(* order exactly when their extent sequences are equal.  This keeps the    *)
(* block size READSZ at the value the program uses.                        *)
EXTENDS Integers, Sequences, FiniteSets, TLC

\* ------------------------------------------------------------------------
\* Module-level constants of fsplit.py
\* ------------------------------------------------------------------------
READSZ == 1048576
MIN_CHUNK_SZ == 10485760
MIN_CHUNKS_ALLOWED == 2
MAX_CHUNKS_ALLOWED == 999

\* ------------------------------------------------------------------------
\* Bounds of the model
\* ------------------------------------------------------------------------
\* source files of 0..MaxSmall bytes are all tried
MaxSmall == 10
\* source files of k*READSZ and k*READSZ + 1 bytes, k in 1..MaxBlocks
MaxBlocks == 2
\* valid chunk counts 2..MaxChunks are run to the end
MaxChunks == 4
\* number of times the operating system may misbehave in one run: a short
\* read, a partial write, or a truncation of the source file by another
\* process
MaxFaults == 2

VARIABLES
    pc,               \* position of the program
    err,              \* the exception that ended the run, "none" if none
    numchunks,        \* args.numchunks
    fileStatus,       \* what args.filename names on disk
    outStatus,        \* what args.outputdir names on disk ("none": not given)
    hasOBinary,       \* whether the platform's os module defines O_BINARY
    fileLen,          \* current length of the source file on disk
    warned,           \* the "< 10MB" warning was printed
    fsOps,            \* kinds of filesystem calls made so far
    file_size,        \* st_size seen by calculate_chunk_sizes
    chunk_size,       \* process_file_to_chunks: chunk_size
    last_chunk_size,  \* process_file_to_chunks: last_chunk_size
    chunk,            \* loop variable of process_file_to_chunks
    ch_size,          \* length handed to fill_chunk
    srcOpen,          \* src_file descriptor is open
    srcPos,           \* file offset of src_file
    destOpen,         \* chunk numbers whose chunk_file descriptor is open
    files,            \* chunk number -> content of that chunk file on disk
    created,          \* chunk numbers in the order their files were created
    chunk_start,      \* srcPos when the current fill_chunk call began
    bytes_left,       \* fill_chunk: bytes_left
    rw_amount,        \* fill_chunk: rw_amount
    eof,              \* the last os.read of src_file returned no bytes
    faults            \* operating-system misbehaviours so far

vars == <<pc, err, numchunks, fileStatus, outStatus, hasOBinary, fileLen,
          warned, fsOps, file_size, chunk_size, last_chunk_size, chunk,
          ch_size, srcOpen, srcPos, destOpen, files, created, chunk_start,
          bytes_left, rw_amount, eof, faults>>

\* ------------------------------------------------------------------------
\* Helpers
\* ------------------------------------------------------------------------
Min(a, b) == IF a < b THEN a ELSE b

Max(a, b) == IF a > b THEN a ELSE b

\* Python's // on a non-negative dividend and a positive divisor (the only
\* case the program reaches: validate_args rejects chunk counts below 2).
FloorDiv(a, b) == a \div b

\* The bytes os.read returns: n bytes of the source starting at offset off.
Extent(off, n) == [off |-> off, len |-> n]

\* os.write appends the n bytes Extent(off, n) to a file whose content is c.
AppendBytes(c, off, n) ==
    IF n = 0 THEN c
    ELSE IF Len(c) > 0 /\ c[Len(c)].off + c[Len(c)].len = off
         THEN [c EXCEPT ![Len(c)] = Extent(c[Len(c)].off, c[Len(c)].len + n)]
         ELSE Append(c, Extent(off, n))

\* content of a file holding the first n bytes of the source
WholeFile(n) == AppendBytes(<<>>, 0, n)

RECURSIVE AppendAll(_, _, _)
\* c followed by the extents d[i..Len(d)] (used to state properties only)
AppendAll(c, d, i) ==
    IF i > Len(d) THEN c
    ELSE AppendAll(AppendBytes(c, d[i].off, d[i].len), d, i + 1)

RECURSIVE Concat(_, _)
\* the chunk files 1..n of f concatenated in index order
Concat(f, n) ==
    IF n = 0 THEN <<>>
    ELSE AppendAll(Concat(f, n - 1), f[n], 1)

\* ------------------------------------------------------------------------
\* Inputs
\* ------------------------------------------------------------------------
SmallSizes == 0..MaxSmall

BlockSizes == {k * READSZ + d : k \in 1..MaxBlocks, d \in {0, 1}}

FileSizes == SmallSizes \cup {25} \cup BlockSizes

InvalidChunkCounts ==
    {0 - 1, 0, MIN_CHUNKS_ALLOWED - 1, MAX_CHUNKS_ALLOWED + 1}

\* the valid chunk counts that are run: 2..MaxChunks and 10 (a 10-byte file
\* in 10 chunks)
ValidChunkCounts == (MIN_CHUNKS_ALLOWED..MaxChunks) \cup {10}

ChunkCounts == InvalidChunkCounts \cup ValidChunkCounts

\* the inputs of the planning steps alone: every chunk count from below the
\* lower limit to above the upper limit, and also file sizes around the
\* largest chunk count
PlanChunkCounts == (0 - 1)..(MAX_CHUNKS_ALLOWED + 1)

PlanFileSizes ==
    FileSizes \cup {MAX_CHUNKS_ALLOWED + d : d \in {0 - 1, 0, 1}}
              \cup {MAX_CHUNKS_ALLOWED * READSZ + d : d \in {0 - 1, 0, 1}}

FileStatuses == {"ok", "missing", "notfile", "unreadable"}

OutStatuses == {"none", "ok", "missing", "notdir", "unwritable"}

\* lengths shorter than n that a short read or a partial write may return
ShortAmounts(n) == {1, n - 1} \cap (1..(n - 1))

\* ------------------------------------------------------------------------
\* calculate_chunk_sizes
\* ------------------------------------------------------------------------
ChunkLength(size, n) == FloorDiv(size, n)

\* a slip in line 59: the remainder alone, the multiplier num_chunks instead
\* of num_chunks - 1
LastChunkLength_Remainder(size, n) == size - (n * ChunkLength(size, n))

LastChunkLength(size, n) == size - ((n - 1) * ChunkLength(size, n))

\* ------------------------------------------------------------------------
\* validate_args
\* ------------------------------------------------------------------------
ChunkCountTooSmall(n) == n < MIN_CHUNKS_ALLOWED

\* a slip in line 106: an upper limit that is off by one
ChunkCountTooLarge_OffByOne(n) == n > MAX_CHUNKS_ALLOWED + 1

ChunkCountTooLarge(n) == n > MAX_CHUNKS_ALLOWED

\* the filesystem calls validate_args makes on the way to its outcome
ValidateOps ==
    IF ChunkCountTooSmall(numchunks) \/ ChunkCountTooLarge(numchunks) THEN {}
    ELSE IF fileStatus = "missing" THEN {"exists"}
    ELSE IF fileStatus = "notfile" THEN {"exists", "isfile"}
    ELSE IF fileStatus = "unreadable" THEN {"exists", "isfile", "access"}
    ELSE IF outStatus \in {"none", "missing"}
         THEN {"exists", "isfile", "access", "stat"}
    ELSE {"exists", "isfile", "access", "stat", "isdir"}

\* the exception validate_args raises, "none" if it returns
ValidateError ==
    IF ChunkCountTooSmall(numchunks) THEN "ValueError"
    ELSE IF ChunkCountTooLarge(numchunks) THEN "ValueError"
    ELSE IF fileStatus # "ok" THEN "OSError"
    ELSE IF outStatus \notin {"none", "ok"} THEN "OSError"
    ELSE "none"

\* ------------------------------------------------------------------------
\* Initial states
\* ------------------------------------------------------------------------
InitRun ==
    /\ pc = "main"
    /\ err = "none"
    /\ warned = FALSE
    /\ fsOps = {}
    /\ file_size = 0
    /\ chunk_size = 0
    /\ last_chunk_size = 0
    /\ chunk = 0
    /\ ch_size = 0
    /\ srcOpen = FALSE
    /\ srcPos = 0
    /\ destOpen = {}
    /\ files = <<>>
    /\ created = <<>>
    /\ chunk_start = 0
    /\ bytes_left = 0
    /\ rw_amount = 0
    /\ eof = FALSE
    /\ faults = 0

Init ==
    /\ InitRun
    /\ numchunks \in ChunkCounts
    /\ fileStatus \in FileStatuses
    /\ outStatus \in OutStatuses
    /\ hasOBinary \in BOOLEAN
    /\ fileLen \in FileSizes

\* ------------------------------------------------------------------------
\* __main__ : get_args, validate_args
\* ------------------------------------------------------------------------
Main_Validate ==
    /\ pc = "main"
    /\ fsOps' = fsOps \cup ValidateOps
    /\ err' = ValidateError
    /\ pc' = IF ValidateError = "none" THEN "process" ELSE "error"
    /\ warned' = (/\ ~ChunkCountTooSmall(numchunks)
                  /\ ~ChunkCountTooLarge(numchunks)
                  /\ fileStatus = "ok"
                  /\ FloorDiv(fileLen, numchunks) < MIN_CHUNK_SZ)
    /\ UNCHANGED <<numchunks, fileStatus, outStatus, hasOBinary, fileLen,
                   file_size, chunk_size, last_chunk_size, chunk, ch_size,
                   srcOpen, srcPos, destOpen, files, created, chunk_start,
                   bytes_left, rw_amount, eof, faults>>

\* ------------------------------------------------------------------------
\* process_file_to_chunks
\* ------------------------------------------------------------------------
CalculateChunkSizes ==
    /\ pc = "process"
    /\ fsOps' = fsOps \cup {"stat"}
    /\ file_size' = fileLen
    /\ chunk_size' = ChunkLength(fileLen, numchunks)
    /\ last_chunk_size' = LastChunkLength(fileLen, numchunks)
    /\ pc' = "open_src"
    /\ UNCHANGED <<err, numchunks, fileStatus, outStatus, hasOBinary,
                   fileLen, warned, chunk, ch_size, srcOpen, srcPos,
                   destOpen, files, created, chunk_start, bytes_left,
                   rw_amount, eof, faults>>

\* line 75: os.open(args.filename, os.O_RDONLY | os.O_BINARY).  os.O_BINARY
\* exists only on Windows; elsewhere evaluating it raises AttributeError.
OpenSrc ==
    /\ pc = "open_src"
    /\ IF hasOBinary
       THEN /\ srcOpen' = TRUE
            /\ srcPos' = 0
            /\ fsOps' = fsOps \cup {"open"}
            /\ chunk' = 1
            /\ pc' = "for"
            /\ err' = err
       ELSE /\ pc' = "error"
            /\ err' = "AttributeError"
            /\ UNCHANGED <<srcOpen, srcPos, fsOps, chunk>>
    /\ UNCHANGED <<numchunks, fileStatus, outStatus, hasOBinary, fileLen,
                   warned, file_size, chunk_size, last_chunk_size, ch_size,
                   destOpen, files, created, chunk_start, bytes_left,
                   rw_amount, eof, faults>>

\* a slip in line 88: the last chunk gets the uniform length too
ChSize_AlwaysUniform(c) == chunk_size

\* line 88
ChSize(c) == IF c = numchunks THEN last_chunk_size ELSE chunk_size

\* lines 76-90: one pass of the for loop up to the call of fill_chunk: the
\* chunk file is created (or truncated) and opened, then fill_chunk is called
ForChunk ==
    /\ pc = "for"
    /\ chunk <= numchunks
    /\ files' = (chunk :> <<>>) @@ files
    /\ created' = Append(created, chunk)
    /\ destOpen' = destOpen \cup {chunk}
    /\ fsOps' = fsOps \cup {"create"}
    /\ ch_size' = ChSize(chunk)
    /\ pc' = "fill_chunk"
    /\ UNCHANGED <<err, numchunks, fileStatus, outStatus, hasOBinary,
                   fileLen, warned, file_size, chunk_size, last_chunk_size,
                   chunk, srcOpen, srcPos, chunk_start, bytes_left,
                   rw_amount, eof, faults>>

\* line 76 when range(1, num_chunks + 1) is exhausted, and line 93
CloseSrc ==
    /\ pc = "for"
    /\ chunk > numchunks
    /\ srcOpen' = FALSE
    /\ fsOps' = fsOps \cup {"close"}
    /\ pc' = "done"
    /\ UNCHANGED <<err, numchunks, fileStatus, outStatus, hasOBinary,
                   fileLen, warned, file_size, chunk_size, last_chunk_size,
                   chunk, ch_size, srcPos, destOpen, files, created,
                   chunk_start, bytes_left, rw_amount, eof, faults>>

\* lines 91-92: fill_chunk has returned
CloseChunk ==
    /\ pc = "close_chunk"
    /\ destOpen' = destOpen \ {chunk}
    /\ fsOps' = fsOps \cup {"close"}
    /\ chunk' = chunk + 1
    /\ pc' = "for"
    /\ UNCHANGED <<err, numchunks, fileStatus, outStatus, hasOBinary,
                   fileLen, warned, file_size, chunk_size, last_chunk_size,
                   ch_size, srcOpen, srcPos, files, created, chunk_start,
                   bytes_left, rw_amount, eof>>
    /\ UNCHANGED faults

\* ------------------------------------------------------------------------
\* fill_chunk
\* ------------------------------------------------------------------------
\* a slip in line 35: the zero-length test never fires
ZeroLength_Never(chunk_length) == FALSE

\* line 35: if not chunk_length
ZeroLength(chunk_length) == chunk_length = 0

\* lines 34-38
FillChunk_Enter ==
    /\ pc = "fill_chunk"
    /\ rw_amount' = 0
    /\ chunk_start' = srcPos
    /\ eof' = FALSE
    /\ IF ZeroLength(ch_size)
       THEN /\ pc' = "error"
            /\ err' = "Exception"
            /\ UNCHANGED bytes_left
       ELSE /\ bytes_left' = ch_size
            /\ pc' = "while"
            /\ err' = err
    /\ UNCHANGED <<numchunks, fileStatus, outStatus, hasOBinary, fileLen,
                   warned, fsOps, file_size, chunk_size, last_chunk_size,
                   chunk, ch_size, srcOpen, srcPos, destOpen, files,
                   created, faults>>

\* lines 40-43
RwAmount(left) == IF left >= READSZ THEN READSZ ELSE left

\* the lengths os.read(src_file, n) may return: nothing at end of file,
\* otherwise up to n bytes of what is left, or fewer on a short read
ReadLengths(n) ==
    LET full == Min(n, Max(0, fileLen - srcPos))
    IN  IF full = 0 THEN {0}
        ELSE {full} \cup (IF faults < MaxFaults THEN ShortAmounts(full) ELSE {})

\* the lengths os.write(dest_file, data) may return for r bytes of data,
\* short being TRUE when the read that produced the data was short
WriteLengths(r, short) ==
    {r} \cup (IF faults + (IF short THEN 1 ELSE 0) < MaxFaults
              THEN ShortAmounts(r) ELSE {})

\* line 44: bytes_left -= os.write(dest_file, os.read(src_file, rw_amount))
BytesLeftAfter(left, written) == left - written

\* lines 39-45: one iteration of the while loop
FillChunk_Iter ==
    /\ pc = "while"
    /\ bytes_left > 0
    /\ rw_amount' = RwAmount(bytes_left)
    /\ \E r \in ReadLengths(RwAmount(bytes_left)) :
         LET short == r < Min(RwAmount(bytes_left), Max(0, fileLen - srcPos))
         IN  \E w \in WriteLengths(r, short) :
               /\ srcPos' = srcPos + r
               /\ eof' = (r = 0)
               /\ files' = [files EXCEPT
                              ![chunk] = AppendBytes(@, srcPos, w)]
               /\ bytes_left' = BytesLeftAfter(bytes_left, w)
               /\ faults' = faults + (IF short THEN 1 ELSE 0)
                                   + (IF w < r THEN 1 ELSE 0)
    /\ fsOps' = fsOps \cup {"read", "write"}
    /\ UNCHANGED <<pc, err, numchunks, fileStatus, outStatus, hasOBinary,
                   fileLen, warned, file_size, chunk_size, last_chunk_size,
                   chunk, ch_size, srcOpen, destOpen, created, chunk_start>>

\* line 44 when os.read or os.write raises OSError (an I/O error)
FillChunk_IOError ==
    /\ pc = "while"
    /\ bytes_left > 0
    /\ rw_amount' = RwAmount(bytes_left)
    /\ fsOps' = fsOps \cup {"read"}
    /\ pc' = "error"
    /\ err' = "OSError"
    /\ UNCHANGED <<numchunks, fileStatus, outStatus, hasOBinary, fileLen,
                   warned, file_size, chunk_size, last_chunk_size, chunk,
                   ch_size, srcOpen, srcPos, destOpen, files, created,
                   chunk_start, bytes_left, eof, faults>>

\* line 39 when bytes_left > 0 is false: fill_chunk returns
FillChunk_Return ==
    /\ pc = "while"
    /\ ~(bytes_left > 0)
    /\ pc' = "close_chunk"
    /\ UNCHANGED <<err, numchunks, fileStatus, outStatus, hasOBinary,
                   fileLen, warned, fsOps, file_size, chunk_size,
                   last_chunk_size, chunk, ch_size, srcOpen, srcPos,
                   destOpen, files, created, chunk_start, bytes_left,
                   rw_amount, eof, faults>>

\* ------------------------------------------------------------------------
\* The environment: another process truncates the source file after
\* calculate_chunk_sizes has read its size
\* ------------------------------------------------------------------------
TruncatedLengths == {0, srcPos, fileLen - 1} \cap (0..(fileLen - 1))

Truncate ==
    /\ pc \in {"open_src", "for", "fill_chunk", "while", "close_chunk"}
    /\ faults < MaxFaults
    /\ \E n \in TruncatedLengths : fileLen' = n
    /\ faults' = faults + 1
    /\ UNCHANGED <<pc, err, numchunks, fileStatus, outStatus, hasOBinary,
                   warned, fsOps, file_size, chunk_size, last_chunk_size,
                   chunk, ch_size, srcOpen, srcPos, destOpen, files,
                   created, chunk_start, bytes_left, rw_amount, eof>>

\* ------------------------------------------------------------------------
\* The whole program
\* ------------------------------------------------------------------------
Next ==
    \/ Main_Validate
    \/ CalculateChunkSizes
    \/ OpenSrc
    \/ ForChunk
    \/ CloseSrc
    \/ CloseChunk
    \/ FillChunk_Enter
    \/ FillChunk_Iter
    \/ FillChunk_IOError
    \/ FillChunk_Return
    \/ Truncate

Spec == Init /\ [][Next]_vars

\* ------------------------------------------------------------------------
\* The planning steps alone (validate_args, calculate_chunk_sizes), over
\* every chunk count
\* ------------------------------------------------------------------------
InitPlan ==
    /\ InitRun
    /\ numchunks \in PlanChunkCounts
    /\ fileStatus \in {"ok", "missing"}
    /\ outStatus = "none"
    /\ hasOBinary = TRUE
    /\ fileLen \in PlanFileSizes

NextPlan == Main_Validate \/ CalculateChunkSizes

SpecPlan == InitPlan /\ [][NextPlan]_vars

\* ------------------------------------------------------------------------
\* Properties
\* ------------------------------------------------------------------------
\* validate_args returned without raising
ArgsValid ==
    /\ numchunks >= MIN_CHUNKS_ALLOWED
    /\ numchunks <= MAX_CHUNKS_ALLOWED
    /\ fileStatus = "ok"
    /\ outStatus \in {"none", "ok"}

\* calculate_chunk_sizes has returned
Planned == ArgsValid /\ pc \notin {"main", "process"}

\* the run has ended
Ended == pc \in {"done", "error"}

\* C1: for every source size and every valid chunk count the run completes
\* and the chunk files, concatenated in index order, equal the source file.
\* Stated for the non-empty source files, in runs in which the platform
\* defines os.O_BINARY and the operating system neither fails nor
\* misbehaves.
C1_RoundTrip ==
    (/\ ArgsValid /\ hasOBinary /\ faults = 0 /\ err # "OSError"
     /\ Ended /\ fileLen >= 1)
        => /\ pc = "done"
           /\ DOMAIN files = 1..numchunks
           /\ Concat(files, numchunks) = WholeFile(file_size)

\* C2: calculate_chunk_sizes returns chunk_length = floor(file_size /
\* num_chunks) (the largest c with c * num_chunks <= file_size), the lengths
\* add up to file_size, and last_chunk_length >= chunk_length >= 0.
C2_ChunkSizes ==
    Planned =>
        /\ file_size = fileLen
        /\ chunk_size * numchunks <= file_size
        /\ file_size < (chunk_size + 1) * numchunks
        /\ chunk_size * (numchunks - 1) + last_chunk_size = file_size
        /\ last_chunk_size >= chunk_size
        /\ chunk_size >= 0

\* C2 witness: 1000 bytes in 999 chunks: 998 chunks of 1 byte and one of 2
C2_Witness ==
    /\ pc = "open_src"
    /\ numchunks = MAX_CHUNKS_ALLOWED
    /\ file_size = MAX_CHUNKS_ALLOWED + 1
    /\ chunk_size = 1
    /\ last_chunk_size = 2

\* C3: when the source reaches end of file before fill_chunk has moved
\* chunk_length bytes, the run ends in an error; it does not stay in the
\* copy loop and does not return.
C3_ShortReadIsError ==
    (eof /\ bytes_left > 0) => pc = "error"

\* C4: every iteration of the copy loop strictly decreases bytes_left.
C4_BytesLeftDecreases ==
    [][FillChunk_Iter => bytes_left' < bytes_left]_vars

\* C5: when fill_chunk returns, exactly chunk_length bytes have been
\* consumed from the source and exactly those bytes, in order, are in the
\* chunk file.
C5_ExactCopy ==
    pc = "close_chunk" =>
        /\ srcPos = chunk_start + ch_size
        /\ files[chunk] = AppendBytes(<<>>, chunk_start, ch_size)

\* C6: for a non-empty source file and a valid chunk count no planned chunk
\* length is 0, so a run never ends in the zero-length rejection of
\* fill_chunk.
C6_NoZeroLength ==
    (Planned /\ file_size >= 1) =>
        /\ err # "Exception"
        /\ (pc = "error" /\ hasOBinary) =>
               (chunk_size # 0 /\ last_chunk_size # 0)

\* C7 as stated: a run on a 0-byte source ends in the error path and leaves
\* no empty chunk file on disk.
C7_NoEmptyChunkFile ==
    (Planned /\ file_size = 0 /\ Ended) =>
        /\ pc = "error"
        /\ \A k \in DOMAIN files : files[k] # <<>>

\* C7 as amended: fill_chunk called with chunk_length 0 raises before any
\* read of the source or write to a chunk; a run on a 0-byte source never
\* enters the copy loop and never completes, and when it is rejected by
\* fill_chunk exactly one chunk file, chunk 1, is on disk and it is empty.
C7_ZeroLengthRejected ==
    /\ err = "Exception" =>
          /\ pc = "error"
          /\ ch_size = 0
          /\ srcPos = 0
          /\ fsOps \cap {"read", "write"} = {}
          /\ created = <<1>>
          /\ files = (1 :> <<>>)
    /\ (Planned /\ file_size = 0) =>
          /\ pc \notin {"while", "close_chunk", "done"}
          /\ (pc = "error" /\ hasOBinary) => err = "Exception"

\* C7 witness: a 0-byte source rejected by fill_chunk with chunk 1 on disk
C7_Witness ==
    /\ pc = "error"
    /\ err = "Exception"
    /\ file_size = 0
    /\ fileLen = 0
    /\ files = (1 :> <<>>)

\* C8: a chunk count outside [2, 999] is rejected by validate_args before
\* any filesystem access, and process_file_to_chunks is never entered.
C8_RejectedBeforeFilesystem ==
    (numchunks < MIN_CHUNKS_ALLOWED \/ numchunks > MAX_CHUNKS_ALLOWED) =>
        /\ fsOps = {}
        /\ pc \in {"main", "error"}
        /\ pc = "error" => err = "ValueError"
        /\ ~srcOpen
        /\ DOMAIN files = {}

\* C8 witness: 1000 chunks asked of a file that does not exist: rejected for
\* the chunk count, the file never looked at
C8_Witness ==
    /\ pc = "error"
    /\ err = "ValueError"
    /\ numchunks = MAX_CHUNKS_ALLOWED + 1
    /\ fileStatus = "missing"
    /\ fsOps = {}

\* the layout C9 describes, u being file_size // N
C9_Layout ==
    LET N == numchunks
        u == file_size \div N
    IN  /\ created = [i \in 1..N |-> i]
        /\ DOMAIN files = 1..N
        /\ \A k \in 1..(N - 1) : files[k] = <<Extent((k - 1) * u, u)>>
        /\ files[N] = <<Extent((N - 1) * u, file_size - (N - 1) * u)>>
        /\ srcPos = file_size

\* C9: in a successful run exactly N chunk files are written, in index
\* order; chunk k < N holds the u = file_size // N bytes at source offsets
\* [(k-1)*u, k*u), chunk N the rest from offset (N-1)*u; the source position
\* only moves forward.
C9_ChunkLayout ==
    /\ [](pc = "done" => C9_Layout)
    /\ [][srcPos' >= srcPos /\ (Len(created') >= Len(created))]_vars

\* C9 witness: 25 bytes in 2 chunks give 12 and 13 bytes
C9_Witness ==
    /\ pc = "done"
    /\ numchunks = 2
    /\ file_size = 25
    /\ files = <<(<<Extent(0, 12)>>), (<<Extent(12, 13)>>)>>

\* C10: at most one chunk descriptor is open at any time, and when the run
\* ends, normally or by an exception, every descriptor it opened is closed.
C10_HandlesClosed ==
    /\ Cardinality(destOpen) <= 1
    /\ Ended => (destOpen = {} /\ ~srcOpen)

=============================================================================
